---------------------------- MODULE Spec2Model ----------------------------
(***************************************************************************)
(* The decorator layer of aiocache (aiocache/decorators.py): cached,       *)
(* cached_stampede and multi_cached, run by several concurrent invocations *)
(* of one decorated function on one asyncio event loop.                    *)
(*                                                                         *)
(* One action is one stretch of a coroutine between two suspension points  *)
(* (an await of a backend call, of the wrapped function, of the lock).     *)
(* The decorator object is shared by all invocations, so its field _conn   *)
(* is one variable; everything a coroutine keeps in locals is a field of   *)
(* that invocation's record.                                               *)
(*                                                                         *)
(* The backend (aiocache/base.py and the cache classes) is not part of the *)
(* decorator module: it is modelled by its contract, a key/value store     *)
(* whose get/set/multi_get/multi_set either answer or raise, the scoped    *)
(* connection _Conn, and the lock _redlock.                                *)
(***************************************************************************)
EXTENDS Integers, Sequences, FiniteSets, TLC

\* ------------------------------------------------------------------ bounds
\* Number of invocations of a cached- or cached_stampede-decorated function.
NInv == 2

\* Number of invocations of a multi_cached-decorated function.
NCalls == 1
\* Longest key list a multi_cached-decorated function is called with.
MaxKeys == 2

\* ------------------------------------------------------------------ values
\* Python's None: an absent cache entry, an unset field, a function result.
None == "None"
\* The non-null values the wrapped function returns and the cache holds.
Values == {"v1", "v2"}
MaybeValues == Values \cup {None}
\* self._conn = None (no handle acquired yet); the handle that invocation i
\* gets from cache.get_connection() is named i.
NoConn == 0
\* No lock record under the key; the record that caller i adds carries i.
NoLock == 0

VARIABLES
    store,      \* the backend's entries: cache key -> value, None when absent
    conn,       \* the decorator's field self._conn: NoConn or a handle
    closes,     \* a close of the shared client has been scheduled (on a hit)
    foreignOp,  \* some get/set went through a handle of another invocation
    faulted,    \* a get or set of a cached_stampede caller has raised
    lock,       \* the lock record of the key: NoLock or its owner
    underrun,   \* a lease has run out while its holder was in its section
    staggered,  \* a cached or cached_stampede caller started after another
                \* had returned
    config,     \* the decorator's configuration, fixed at construction
    inv         \* per invocation: its position, locals, and what it did

vars == <<store, conn, closes, foreignOp, faulted, lock, underrun, staggered,
          config, inv>>

\* ------------------------------------------------- cached: pure parts
\* Mutant of get_from_cache: whatever was read, None is returned.
get_from_cache_blind(raw, failed) == None

\* get_from_cache: the value read, or None when conn.get raised (the except
\* branch logs and falls off the end of the function).
get_from_cache(raw, failed) == IF failed THEN None ELSE raw

\* Mutant of is_hit: whatever was read counts as found.
is_hit_any(value) == TRUE

\* Mutant of is_hit: the test of line 81 never succeeds.
is_hit_never(value) == FALSE

\* decorator, line 81: a lookup is a hit when the value is not None.
is_hit(value) == value # None

\* get_from_cache, line 107: a non-None value schedules cache.close().
schedules_close(value) == value # None

\* Mutant of set_in_cache: the value never reaches the backend.
set_in_cache_dropped(old, value, failed) == old

\* set_in_cache: what the backend holds under the key after conn.set, which
\* is the value when it answered and the old entry when it raised.
set_in_cache(old, value, failed) == IF failed THEN old ELSE value

\* The handle a cached invocation's get and set go through: the property
\* conn returns self._conn, the decorator's field, not a local of the call.
cached_conn(i) == conn

Upd(i, r) == [inv EXCEPT ![i] = r]

\* ------------------------------------------------- cached: invocations
Inv == 1..NInv

\* The keys the invocations' arguments derive (get_cache_key).
SingleKeys == {"a"}

\* An invocation that has not started: nothing read, called or written.
\* getFailed and setFailed record what a cached invocation's get and set
\* did; for cached_stampede callers the variable faulted does.  raised
\* records that the wrapped function raised, out what the caller then sees.
Fresh ==
    [pc |-> "start", key |-> None, value |-> None, result |-> None,
     getFailed |-> FALSE, setFailed |-> FALSE, waitOn |-> NoLock,
     raised |-> FALSE,
     gets |-> 0, fcalls |-> 0, sets |-> 0, adds |-> 0, exits |-> 0,
     out |-> "none", ret |-> None]

\* What is left of an invocation once it has returned to its caller.
Finished(r) ==
    [Fresh EXCEPT !.pc = "done", !.out = r.out, !.ret = r.ret,
                  !.raised = r.raised,
                  !.gets = r.gets, !.fcalls = r.fcalls, !.sets = r.sets,
                  !.adds = r.adds, !.exits = r.exits]

InitCached ==
    /\ store \in [SingleKeys -> MaybeValues]
    /\ conn = NoConn
    /\ closes = FALSE
    /\ foreignOp = FALSE
    /\ faulted = FALSE
    /\ lock = NoLock
    /\ underrun = FALSE
    /\ staggered = FALSE
    /\ config = [deco |-> "cached"]
    /\ inv = [i \in Inv |-> Fresh]

\* Mutant of cached_get_connection: a handle already stored is kept.
cached_get_connection_reuses(i) ==
    /\ config.deco = "cached"
    /\ inv[i].pc = "start"
    /\ \E k \in SingleKeys :
        inv' = Upd(i, [inv[i] EXCEPT !.pc = "aenter", !.key = k])
    /\ conn' = (IF conn # NoConn THEN conn ELSE i)
    /\ staggered' = (staggered \/ \E j \in Inv \ {i} : inv[j].pc = "done")
    /\ UNCHANGED <<faulted, store, closes, foreignOp,
                   lock, underrun, config>>

\* decorator, line 75: self._conn = self.cache.get_connection(); the call
\* arrives with arguments that derive key k.
cached_get_connection(i) ==
    /\ config.deco = "cached"
    /\ inv[i].pc = "start"
    /\ \E k \in SingleKeys :
        inv' = Upd(i, [inv[i] EXCEPT !.pc = "aenter", !.key = k])
    /\ conn' = i
    /\ staggered' = (staggered \/ \E j \in Inv \ {i} : inv[j].pc = "done")
    /\ UNCHANGED <<faulted, store, closes, foreignOp,
                   lock, underrun, config>>

\* decorator, line 77: async with self._conn: the handle just stored is the
\* context manager; __aenter__ awaits the pool.
cached_aenter(i) ==
    /\ config.deco = "cached"
    /\ inv[i].pc = "aenter"
    /\ inv' = Upd(i, [inv[i] EXCEPT !.pc = "get"])
    /\ UNCHANGED <<faulted, store, conn, closes,
                   foreignOp, lock, underrun, staggered, config>>

\* decorator, lines 78-82 with get_from_cache: the read goes through
\* self.conn, which is whatever self._conn holds now.
cached_get_from_cache(i) ==
    /\ config.deco = "cached"
    /\ inv[i].pc = "get"
    /\ \E failed \in BOOLEAN :
        LET value == get_from_cache(store[inv[i].key], failed)
        IN  /\ inv' = Upd(i, [inv[i] EXCEPT
                    !.pc = IF is_hit(value) THEN "aexit" ELSE "call",
                    !.value = value,
                    !.gets = @ + 1,
                    !.getFailed = failed,
                    !.out = IF is_hit(value) THEN "return" ELSE @,
                    !.ret = IF is_hit(value) THEN value ELSE @])
            /\ closes' = (closes \/ (~failed /\ schedules_close(value)))
    /\ foreignOp' = (foreignOp \/ cached_conn(i) # i)
    /\ UNCHANGED <<faulted, store, conn, lock, underrun, staggered, config>>

\* Mutant of cached_call_f: a raise of f is caught and None is cached.
cached_call_f_caught(i) ==
    /\ config.deco = "cached"
    /\ inv[i].pc = "call"
    /\ \/ \E r \in MaybeValues :
            inv' = Upd(i, [inv[i] EXCEPT
                !.pc = "set", !.result = r, !.fcalls = @ + 1])
       \/ inv' = Upd(i, [inv[i] EXCEPT
                !.pc = "set", !.result = None, !.fcalls = @ + 1,
                !.raised = TRUE])
    /\ UNCHANGED <<faulted, store, conn, closes,
                   foreignOp, lock, underrun, staggered, config>>

\* Mutant of cached_call_f: a raise of f reaches the caller past __aexit__.
cached_call_f_leaks(i) ==
    /\ config.deco = "cached"
    /\ inv[i].pc = "call"
    /\ \/ \E r \in MaybeValues :
            inv' = Upd(i, [inv[i] EXCEPT
                !.pc = "set", !.result = r, !.fcalls = @ + 1])
       \/ inv' = Upd(i, Finished([inv[i] EXCEPT
                !.fcalls = @ + 1, !.raised = TRUE, !.out = "raise_f"]))
    /\ UNCHANGED <<faulted, store, conn, closes,
                   foreignOp, lock, underrun, staggered, config>>

\* decorator, line 84: result = await f(*args, **kwargs); f returns a value
\* or None, or raises, and a raise leaves the with block.
cached_call_f(i) ==
    /\ config.deco = "cached"
    /\ inv[i].pc = "call"
    /\ \/ \E r \in MaybeValues :
            inv' = Upd(i, [inv[i] EXCEPT
                !.pc = "set", !.result = r, !.fcalls = @ + 1])
       \/ inv' = Upd(i, [inv[i] EXCEPT
                !.pc = "aexit", !.fcalls = @ + 1, !.raised = TRUE,
                !.out = "raise_f"])
    /\ UNCHANGED <<faulted, store, conn, closes,
                   foreignOp, lock, underrun, staggered, config>>

\* Mutant of cached_set_in_cache: an exception of conn.set is not caught.
cached_set_in_cache_uncaught(i) ==
    /\ config.deco = "cached"
    /\ inv[i].pc = "set"
    /\ \E failed \in BOOLEAN :
        /\ store' = [store EXCEPT
                ![inv[i].key] = set_in_cache(@, inv[i].result, failed)]
        /\ inv' = Upd(i, [inv[i] EXCEPT
                !.pc = "aexit",
                !.sets = @ + 1,
                !.setFailed = failed,
                !.out = IF failed THEN "raise_backend" ELSE "return",
                !.ret = IF failed THEN None ELSE inv[i].result])
    /\ foreignOp' = (foreignOp \/ cached_conn(i) # i)
    /\ UNCHANGED <<faulted, conn, closes, lock, underrun, staggered, config>>

\* decorator, line 86 with set_in_cache: the write goes through self.conn;
\* an exception of conn.set is logged and dropped.
cached_set_in_cache(i) ==
    /\ config.deco = "cached"
    /\ inv[i].pc = "set"
    /\ \E failed \in BOOLEAN :
        /\ store' = [store EXCEPT
                ![inv[i].key] = set_in_cache(@, inv[i].result, failed)]
        /\ inv' = Upd(i, [inv[i] EXCEPT
                !.pc = "aexit",
                !.sets = @ + 1,
                !.setFailed = failed,
                !.out = "return",
                !.ret = inv[i].result])
    /\ foreignOp' = (foreignOp \/ cached_conn(i) # i)
    /\ UNCHANGED <<faulted, conn, closes, lock, underrun, staggered, config>>

\* decorator, lines 77 and 88: leaving the with block runs __aexit__ of the
\* handle this invocation entered, then the return or the raise reaches the
\* caller.
cached_aexit(i) ==
    /\ config.deco = "cached"
    /\ inv[i].pc = "aexit"
    /\ inv' = Upd(i, Finished([inv[i] EXCEPT !.exits = @ + 1]))
    /\ UNCHANGED <<faulted, store, conn, closes,
                   foreignOp, lock, underrun, staggered, config>>

NextCached ==
    \E i \in Inv :
        \/ cached_get_connection(i)
        \/ cached_aenter(i)
        \/ cached_get_from_cache(i)
        \/ cached_call_f(i)
        \/ cached_set_in_cache(i)
        \/ cached_aexit(i)

SpecCached == InitCached /\ [][NextCached]_vars

\* ------------------------------------------- cached_stampede: the lock
\* cache._redlock(key, lease) lives in aiocache/base.py, outside the
\* decorator module.  Its behaviour is fixed by the specification (section
\* 4.5) and by the tests that drive it: one add of the lock record per
\* caller (_add is called once per caller in test_locking_dogpile and in
\* test_calls_locked_client); a caller whose add collides waits until the
\* record it collided with is gone, released or expired, and then runs its
\* section; leaving the section deletes the record if it is still the
\* caller's own.

\* add(lock_key, token, ttl=lease): insert-if-absent.
redlock_add_succeeds(held) == held = NoLock

\* Mutant of redlock_released: the record is deleted whoever owns it.
redlock_released_unowned(held, i) == NoLock

\* The record after caller i has left its section: deleted when i owns it.
redlock_released(held, i) == IF held = i THEN NoLock ELSE held

\* Mutant of redlock_wait_over: a collided caller does not wait.
redlock_wait_over_at_once(held, collided) == TRUE

\* A waiter resumes once the record it collided with is no longer there.
redlock_wait_over(held, collided) == held # collided

\* cached_stampede.__init__, line 153: lease=2 unless the caller gives one;
\* a lease of 0 (or None) is a ttl of no expiration.
DefaultLease == 2

NoLease == 0

InitStampede ==
    /\ store = [k \in SingleKeys |-> None]
    /\ conn = NoConn
    /\ closes = FALSE
    /\ foreignOp = FALSE
    /\ faulted = FALSE
    /\ lock = NoLock
    /\ underrun = FALSE
    /\ staggered = FALSE
    /\ config = [deco |-> "cached_stampede", lease |-> DefaultLease]
    /\ inv = [i \in Inv |-> Fresh]

\* Mutant of stampede_get_from_cache: a handle is acquired first, as cached
\* does at line 75.
stampede_get_from_cache_acquires(i) ==
    /\ config.deco = "cached_stampede"
    /\ inv[i].pc = "start"
    /\ \E k \in SingleKeys, failed \in BOOLEAN :
        LET value == get_from_cache(store[k], failed)
            r == [inv[i] EXCEPT !.key = k, !.value = value, !.gets = @ + 1]
        IN  /\ inv' = Upd(i,
                    IF is_hit(value)
                    THEN Finished([r EXCEPT !.out = "return", !.ret = value])
                    ELSE [r EXCEPT !.pc = "add"])
            /\ closes' = (closes \/ (~failed /\ schedules_close(value)))
            /\ faulted' = (faulted \/ failed)
    /\ conn' = i
    /\ staggered' = (staggered \/ \E j \in Inv \ {i} : inv[j].pc = "done")
    /\ UNCHANGED <<store, foreignOp, lock, underrun, config>>

\* Mutant of stampede_get_from_cache: a hit goes on to the lock as well.
stampede_get_from_cache_contends(i) ==
    /\ config.deco = "cached_stampede"
    /\ inv[i].pc = "start"
    /\ \E k \in SingleKeys, failed \in BOOLEAN :
        LET value == get_from_cache(store[k], failed)
        IN  /\ inv' = Upd(i, [inv[i] EXCEPT !.pc = "add", !.key = k,
                                !.value = value, !.gets = @ + 1])
            /\ closes' = (closes \/ (~failed /\ schedules_close(value)))
            /\ faulted' = (faulted \/ failed)
    /\ staggered' = (staggered \/ \E j \in Inv \ {i} : inv[j].pc = "done")
    /\ UNCHANGED <<store, conn, foreignOp, lock, underrun, config>>

\* decorator, lines 162-166: derive the key, look it up on the shared
\* client (conn is self.cache), return on a hit.
stampede_get_from_cache(i) ==
    /\ config.deco = "cached_stampede"
    /\ inv[i].pc = "start"
    /\ \E k \in SingleKeys, failed \in BOOLEAN :
        LET value == get_from_cache(store[k], failed)
            r == [inv[i] EXCEPT !.key = k, !.value = value, !.gets = @ + 1]
        IN  /\ inv' = Upd(i,
                    IF is_hit(value)
                    THEN Finished([r EXCEPT !.out = "return", !.ret = value])
                    ELSE [r EXCEPT !.pc = "add"])
            /\ closes' = (closes \/ (~failed /\ schedules_close(value)))
            /\ faulted' = (faulted \/ failed)
    /\ staggered' = (staggered \/ \E j \in Inv \ {i} : inv[j].pc = "done")
    /\ UNCHANGED <<store, conn, foreignOp, lock, underrun, config>>

\* decorator, line 168, entering the with block: the one add attempt.
stampede_redlock_aenter(i) ==
    /\ config.deco = "cached_stampede"
    /\ inv[i].pc = "add"
    /\ IF redlock_add_succeeds(lock)
       THEN /\ lock' = i
            /\ inv' = Upd(i, [inv[i] EXCEPT !.pc = "get2", !.adds = @ + 1])
       ELSE /\ lock' = lock
            /\ inv' = Upd(i, [inv[i] EXCEPT !.pc = "wait", !.adds = @ + 1,
                                            !.waitOn = lock])
    /\ UNCHANGED <<faulted, store, conn, closes,
                   foreignOp, underrun, staggered, config>>

\* Mutant of stampede_redlock_wait: the woken caller tries the add again.
stampede_redlock_wait_retries(i) ==
    /\ config.deco = "cached_stampede"
    /\ inv[i].pc = "wait"
    /\ redlock_wait_over(lock, inv[i].waitOn)
    /\ inv' = Upd(i, [inv[i] EXCEPT !.pc = "add", !.waitOn = NoLock])
    /\ UNCHANGED <<faulted, store, conn, closes,
                   foreignOp, lock, underrun, staggered, config>>

\* decorator, line 168, still entering: the collided caller is woken.
stampede_redlock_wait(i) ==
    /\ config.deco = "cached_stampede"
    /\ inv[i].pc = "wait"
    /\ redlock_wait_over(lock, inv[i].waitOn)
    /\ inv' = Upd(i, [inv[i] EXCEPT !.pc = "get2", !.waitOn = NoLock])
    /\ UNCHANGED <<faulted, store, conn, closes,
                   foreignOp, lock, underrun, staggered, config>>

\* Mutant of stampede_get_in_lock: a miss inside the lock returns None
\* without computing.
stampede_get_in_lock_no_call(i) ==
    /\ config.deco = "cached_stampede"
    /\ inv[i].pc = "get2"
    /\ \E failed \in BOOLEAN :
        LET value == get_from_cache(store[inv[i].key], failed)
        IN  /\ inv' = Upd(i, [inv[i] EXCEPT
                    !.pc = "release", !.value = value, !.gets = @ + 1,
                    !.out = "return", !.ret = value])
            /\ closes' = (closes \/ (~failed /\ schedules_close(value)))
            /\ faulted' = (faulted \/ failed)
    /\ UNCHANGED <<store, conn, foreignOp, lock, underrun, staggered, config>>

\* Mutant of stampede_get_in_lock: the second lookup is made and its value
\* ignored, the caller computes.
stampede_get_in_lock_ignores_hit(i) ==
    /\ config.deco = "cached_stampede"
    /\ inv[i].pc = "get2"
    /\ \E failed \in BOOLEAN :
        LET value == get_from_cache(store[inv[i].key], failed)
        IN  /\ inv' = Upd(i, [inv[i] EXCEPT
                    !.pc = "call", !.value = value, !.gets = @ + 1])
            /\ closes' = (closes \/ (~failed /\ schedules_close(value)))
            /\ faulted' = (faulted \/ failed)
    /\ UNCHANGED <<store, conn, foreignOp, lock, underrun, staggered, config>>

\* Mutant of stampede_get_in_lock: no second lookup, the caller computes.
stampede_get_in_lock_skipped(i) ==
    /\ config.deco = "cached_stampede"
    /\ inv[i].pc = "get2"
    /\ inv' = Upd(i, [inv[i] EXCEPT !.pc = "call"])
    /\ UNCHANGED <<faulted, store, conn, closes,
                   foreignOp, lock, underrun, staggered, config>>

\* decorator, lines 169-171: the lookup inside the lock.
stampede_get_in_lock(i) ==
    /\ config.deco = "cached_stampede"
    /\ inv[i].pc = "get2"
    /\ \E failed \in BOOLEAN :
        LET value == get_from_cache(store[inv[i].key], failed)
        IN  /\ inv' = Upd(i, [inv[i] EXCEPT
                    !.pc = IF is_hit(value) THEN "release" ELSE "call",
                    !.value = value,
                    !.gets = @ + 1,
                    !.out = IF is_hit(value) THEN "return" ELSE @,
                    !.ret = IF is_hit(value) THEN value ELSE @])
            /\ closes' = (closes \/ (~failed /\ schedules_close(value)))
            /\ faulted' = (faulted \/ failed)
    /\ UNCHANGED <<store, conn, foreignOp, lock, underrun, staggered, config>>

\* Mutant of stampede_call_f: a raise of f leaves without releasing.
stampede_call_f_no_release(i) ==
    /\ config.deco = "cached_stampede"
    /\ inv[i].pc = "call"
    /\ \/ \E r \in MaybeValues :
            inv' = Upd(i, [inv[i] EXCEPT
                !.pc = "set", !.result = r, !.fcalls = @ + 1])
       \/ inv' = Upd(i, Finished([inv[i] EXCEPT
                !.fcalls = @ + 1, !.raised = TRUE, !.out = "raise_f"]))
    /\ UNCHANGED <<faulted, store, conn, closes,
                   foreignOp, lock, underrun, staggered, config>>

\* decorator, line 173: result = await f(*args, **kwargs).
stampede_call_f(i) ==
    /\ config.deco = "cached_stampede"
    /\ inv[i].pc = "call"
    /\ \/ \E r \in MaybeValues :
            inv' = Upd(i, [inv[i] EXCEPT
                !.pc = "set", !.result = r, !.fcalls = @ + 1])
       \/ inv' = Upd(i, [inv[i] EXCEPT
                !.pc = "release", !.fcalls = @ + 1, !.raised = TRUE,
                !.out = "raise_f"])
    /\ UNCHANGED <<faulted, store, conn, closes,
                   foreignOp, lock, underrun, staggered, config>>

\* decorator, line 175: await self.set_in_cache(key, result).
stampede_set_in_cache(i) ==
    /\ config.deco = "cached_stampede"
    /\ inv[i].pc = "set"
    /\ \E failed \in BOOLEAN :
        /\ store' = [store EXCEPT
                ![inv[i].key] = set_in_cache(@, inv[i].result, failed)]
        /\ inv' = Upd(i, [inv[i] EXCEPT
                !.pc = "release",
                !.sets = @ + 1,
                !.out = "return",
                !.ret = inv[i].result])
        /\ faulted' = (faulted \/ failed)
    /\ UNCHANGED <<conn, closes, foreignOp, lock, underrun, staggered, config>>

\* decorator, lines 168 and 177: leaving the with block releases the lock,
\* then the return or the raise reaches the caller.
stampede_redlock_aexit(i) ==
    /\ config.deco = "cached_stampede"
    /\ inv[i].pc = "release"
    /\ lock' = redlock_released(lock, i)
    /\ inv' = Upd(i, Finished([inv[i] EXCEPT !.exits = @ + 1]))
    /\ UNCHANGED <<faulted, store, conn, closes,
                   foreignOp, underrun, staggered, config>>

\* Mutant of redlock_lease_expires: the record outlives its ttl.
redlock_lease_kept ==
    /\ config.deco = "cached_stampede"
    /\ config.lease # NoLease
    /\ lock # NoLock
    /\ UNCHANGED vars

\* The lock record's ttl (the lease) runs out while its owner is still
\* inside its section.
redlock_lease_expires ==
    /\ config.deco = "cached_stampede"
    /\ config.lease # NoLease
    /\ lock # NoLock
    /\ lock' = NoLock
    /\ underrun' = TRUE
    /\ UNCHANGED <<faulted, store, conn, closes,
                   foreignOp, staggered, config, inv>>

NextStampede ==
    \/ \E i \in Inv :
        \/ stampede_get_from_cache(i)
        \/ stampede_redlock_aenter(i)
        \/ stampede_redlock_wait(i)
        \/ stampede_get_in_lock(i)
        \/ stampede_call_f(i)
        \/ stampede_set_in_cache(i)
        \/ stampede_redlock_aexit(i)
    \/ redlock_lease_expires

SpecStampede == InitStampede /\ [][NextStampede]_vars

\* Both single-value decorators.
InitSingle == InitCached \/ InitStampede

NextSingle == NextCached \/ NextStampede

SpecSingle == InitSingle /\ [][NextSingle]_vars

\* ------------------------------------------------- multi_cached
Calls == 1..NCalls

\* The keys the callers ask for, and the key lists they pass.
Keys == {"a", "b"}

KeyLists == UNION {[1..n -> Keys] : n \in 0..MaxKeys}

\* The decorator's key_builder: the default lambda x, args_dict: x of line
\* 238, or a caller's function that namespaces the key by another argument.
key_builder(kb, key) ==
    IF kb = "default" THEN key
    ELSE IF key = "a" THEN "ES_A" ELSE "ES_B"

CacheKeys(kb) == {key_builder(kb, k) : k \in Keys}

\* get_cache_keys, line 280.
get_cache_keys(kb, keys) == [n \in 1..Len(keys) |-> key_builder(kb, keys[n])]

\* What multi_get answers for keys, aligned with them.
multi_get(keys) == [n \in 1..Len(keys) |-> store[keys[n]]]

\* get_from_cache of multi_cached, lines 285-292, for a non-empty key list:
\* the values read, or one None per key when multi_get raised.
multi_get_from_cache(keys, failed) ==
    IF failed THEN [n \in 1..Len(keys) |-> None] ELSE multi_get(keys)

\* Mutant of missing_keys: every key is taken for missing.
missing_keys_all(keys, values) == keys

\* decorator, lines 261-263: the keys whose value is None, in order.
RECURSIVE missing_keys(_, _)
missing_keys(keys, values) ==
    IF keys = <<>> THEN <<>>
    ELSE IF Head(values) = None
         THEN <<Head(keys)>> \o missing_keys(Tail(keys), Tail(values))
         ELSE missing_keys(Tail(keys), Tail(values))

\* decorator, lines 264-265: the mapping of the other keys to their values.
partial_hits(keys, values) ==
    LET hit == {n \in 1..Len(keys) : values[n] # None}
    IN  [k \in {keys[n] : n \in hit} |->
            values[CHOOSE n \in hit : keys[n] = k]]

\* Mutant of all_hit: an empty list of values counts as all found.
all_hit_vacuous(values) == \A n \in 1..Len(values) : values[n] # None

\* Mutant of all_hit: the early return of line 268 is never taken.
all_hit_never(values) == FALSE

\* decorator, line 267: every key was found, and there was one at least.
all_hit(values) ==
    values # <<>> /\ \A n \in 1..Len(values) : values[n] # None

\* decorator, line 271: result.update(partial).
update(result, partial) ==
    [k \in DOMAIN result \cup DOMAIN partial |->
        IF k \in DOMAIN partial THEN partial[k] ELSE result[k]]

\* Mutant of written: only what f returned is handed to set_in_cache.
written_only_computed(fres, partial) == fres

\* decorator, line 273: the mapping handed to set_in_cache is result, after
\* the update.
written(fres, partial) == update(fres, partial)

\* The backend after multi_set of the pairs of a mapping.
multi_set(old, pairs, failed) ==
    IF failed THEN old
    ELSE [k \in DOMAIN old |-> IF k \in DOMAIN pairs THEN pairs[k] ELSE old[k]]

Range(seq) == {seq[n] : n \in 1..Len(seq)}

Empty == [k \in {} |-> None]

FreshCall ==
    [pc |-> "start", args |-> <<>>, hasKeys |-> TRUE, byPos |-> FALSE,
     keys |-> <<>>, values |-> <<>>, missing |-> <<>>, partial |-> Empty,
     farg |-> <<>>, fres |-> Empty, wrote |-> Empty,
     getFailed |-> FALSE, setFailed |-> FALSE,
     gets |-> 0, fcalls |-> 0, sets |-> 0, exits |-> 0,
     out |-> "none", ret |-> Empty]

FinishedCall(r) ==
    [FreshCall EXCEPT !.pc = "done", !.out = r.out,
                      !.gets = r.gets, !.fcalls = r.fcalls, !.sets = r.sets,
                      !.exits = r.exits]

InitMulti ==
    /\ \E kb \in {"default", "custom"} :
        /\ config = [deco |-> "multi_cached", kb |-> kb]
        /\ store \in [CacheKeys(kb) -> MaybeValues]
    /\ conn = NoConn
    /\ closes = FALSE
    /\ foreignOp = FALSE
    /\ faulted = FALSE
    /\ lock = NoLock
    /\ underrun = FALSE
    /\ staggered = FALSE
    /\ inv = [i \in Calls |-> FreshCall]

\* decorator, line 254: self._conn = self.cache.get_connection(); the call
\* arrives with a key list, or without one.
multi_get_connection(i) ==
    /\ config.deco = "multi_cached"
    /\ inv[i].pc = "start"
    /\ \/ \E ks \in KeyLists :
            inv' = Upd(i, [inv[i] EXCEPT !.pc = "aenter", !.args = ks])
       \/ inv' = Upd(i, [inv[i] EXCEPT !.pc = "aenter", !.hasKeys = FALSE])
    /\ conn' = i
    /\ UNCHANGED <<faulted, store, closes, foreignOp,
                   lock, underrun, staggered, config>>

\* decorator, line 255: async with self._conn.
multi_aenter(i) ==
    /\ config.deco = "multi_cached"
    /\ inv[i].pc = "aenter"
    /\ inv' = Upd(i, [inv[i] EXCEPT !.pc = "get"])
    /\ UNCHANGED <<faulted, store, conn, closes, foreignOp,
                   lock, underrun, staggered, config>>

\* Mutant of multi_get_cache_keys_fails: a call without the keys attribute
\* is taken for a call with no keys.
multi_get_cache_keys_defaults(i) ==
    /\ config.deco = "multi_cached"
    /\ inv[i].pc = "get"
    /\ ~inv[i].hasKeys
    /\ inv' = Upd(i, [inv[i] EXCEPT !.pc = "call"])
    /\ UNCHANGED <<faulted, store, conn, closes, foreignOp,
                   lock, underrun, staggered, config>>

\* decorator, line 258: get_cache_keys raises KeyError when the bindings of
\* the call have no keys attribute; the with block is left.
multi_get_cache_keys_fails(i) ==
    /\ config.deco = "multi_cached"
    /\ inv[i].pc = "get"
    /\ ~inv[i].hasKeys
    /\ inv' = Upd(i, [inv[i] EXCEPT !.pc = "aexit", !.out = "raise_key"])
    /\ UNCHANGED <<faulted, store, conn, closes, foreignOp,
                   lock, underrun, staggered, config>>

\* decorator, lines 256-268, with get_from_cache: derive the keys, read them
\* in one multi_get through self._conn (no backend call for an empty list),
\* split them into missing and found, return the found when none is missing.
multi_get_from_cache_step(i) ==
    /\ config.deco = "multi_cached"
    /\ inv[i].pc = "get"
    /\ inv[i].hasKeys
    /\ LET keys == get_cache_keys(config.kb, inv[i].args)
       IN  \E failed \in (IF keys = <<>> THEN {FALSE} ELSE BOOLEAN) :
            LET values == IF keys = <<>> THEN <<>>
                          ELSE multi_get_from_cache(keys, failed)
                missing == missing_keys(keys, values)
                partial == partial_hits(keys, values)
                r == [inv[i] EXCEPT
                        !.keys = keys, !.values = values,
                        !.missing = missing, !.partial = partial,
                        !.getFailed = failed,
                        !.gets = IF keys = <<>> THEN @ ELSE @ + 1]
            IN  /\ inv' = Upd(i,
                        IF all_hit(values)
                        THEN [r EXCEPT !.pc = "aexit", !.out = "return",
                                       !.ret = partial]
                        ELSE [r EXCEPT !.pc = "call"])
                /\ closes' = (closes \/ (keys # <<>> /\ ~failed
                                          /\ all_hit(values)))
                /\ foreignOp' = (foreignOp \/ (keys # <<>> /\ conn # i))
    /\ UNCHANGED <<faulted, store, conn, lock, underrun, staggered, config>>

\* decorator, lines 266 and 270-271: kwargs[keys_from_attr] = missing_keys;
\* result = await f(*args, **kwargs); result.update(partial).  The caller
\* has passed the key list by keyword or by position, which nothing reads
\* before this call: passed by position it is now bound twice and the call
\* raises TypeError.  f returns a mapping of the keys it was given, or
\* raises.
multi_call_f(i) ==
    /\ config.deco = "multi_cached"
    /\ inv[i].pc = "call"
    /\ \/ inv' = Upd(i, [inv[i] EXCEPT
                !.pc = "aexit", !.byPos = TRUE, !.out = "raise_type"])
       \/ \E v \in Values :
            LET fres == [k \in Range(inv[i].missing) |-> v]
            IN  inv' = Upd(i, [inv[i] EXCEPT
                    !.pc = "set", !.fcalls = @ + 1,
                    !.farg = inv[i].missing, !.fres = fres])
       \/ inv' = Upd(i, [inv[i] EXCEPT
                !.pc = "aexit", !.fcalls = @ + 1,
                !.farg = inv[i].missing, !.out = "raise_f"])
    /\ UNCHANGED <<faulted, store, conn, closes, foreignOp,
                   lock, underrun, staggered, config>>

\* Mutant of multi_set_in_cache: an exception of multi_set is not caught.
multi_set_in_cache_uncaught(i) ==
    /\ config.deco = "multi_cached"
    /\ inv[i].pc = "set"
    /\ \E failed \in BOOLEAN :
        LET result == written(inv[i].fres, inv[i].partial)
        IN  /\ store' = multi_set(store, result, failed)
            /\ inv' = Upd(i, [inv[i] EXCEPT
                    !.pc = "aexit", !.sets = @ + 1, !.wrote = result,
                    !.setFailed = failed,
                    !.out = IF failed THEN "raise_backend" ELSE "return",
                    !.ret = IF failed THEN @
                            ELSE update(inv[i].fres, inv[i].partial)])
    /\ foreignOp' = (foreignOp \/ conn # i)
    /\ UNCHANGED <<faulted, conn, closes, lock, underrun, staggered, config>>

\* decorator, lines 273-275 with set_in_cache: one multi_set of the pairs of
\* result through self._conn; an exception of it is logged and dropped.
multi_set_in_cache(i) ==
    /\ config.deco = "multi_cached"
    /\ inv[i].pc = "set"
    /\ \E failed \in BOOLEAN :
        LET result == written(inv[i].fres, inv[i].partial)
        IN  /\ store' = multi_set(store, result, failed)
            /\ inv' = Upd(i, [inv[i] EXCEPT
                    !.pc = "aexit", !.sets = @ + 1, !.wrote = result,
                    !.setFailed = failed, !.out = "return",
                    !.ret = update(inv[i].fres, inv[i].partial)])
    /\ foreignOp' = (foreignOp \/ conn # i)
    /\ UNCHANGED <<faulted, conn, closes, lock, underrun, staggered, config>>

\* decorator, lines 255 and 275: __aexit__ of the handle, then the caller.
multi_aexit(i) ==
    /\ config.deco = "multi_cached"
    /\ inv[i].pc = "aexit"
    /\ inv' = Upd(i, FinishedCall([inv[i] EXCEPT !.exits = @ + 1]))
    /\ UNCHANGED <<faulted, store, conn, closes, foreignOp,
                   lock, underrun, staggered, config>>

NextMulti ==
    \E i \in Calls :
        \/ multi_get_connection(i)
        \/ multi_aenter(i)
        \/ multi_get_cache_keys_fails(i)
        \/ multi_get_from_cache_step(i)
        \/ multi_call_f(i)
        \/ multi_set_in_cache(i)
        \/ multi_aexit(i)

SpecMulti == InitMulti /\ [][NextMulti]_vars

\* Any of the three decorators.
Init == InitCached \/ InitStampede \/ InitMulti

Next == NextCached \/ NextStampede \/ NextMulti

Spec == Init /\ [][Next]_vars

\* ------------------------------------------------------------- claims
AllDone == \A i \in Inv : inv[i].pc = "done"

\* The number of invocations of the wrapped function so far.
RECURSIVE SumCalls(_)
SumCalls(S) ==
    IF S = {} THEN 0
    ELSE LET i == CHOOSE x \in S : TRUE
         IN  inv[i].fcalls + SumCalls(S \ {i})

TotalCalls == SumCalls(Inv)

\* The callers ran concurrently: each made its first lookup while no other
\* had returned yet.
Concurrent == ~staggered

\* Every caller's first lookup missed: each went on to the lock.
AllMissedFirst == \A i \in Inv : inv[i].adds = 1

\* Every computation so far returned a non-null value.
NonNullResults ==
    \A i \in Inv :
        (inv[i].pc = "done" /\ inv[i].fcalls = 1)
            => (inv[i].out = "return" /\ inv[i].ret # None)

\* The conditions under which the stampede guarantee is given: no lease ran
\* out, no backend call raised, the wrapped function returned a value.
Nominal == ~underrun /\ ~faulted /\ NonNullResults

C3_OwnHandle == ~foreignOp

\* C4: a cached_stampede invocation that has entered the locked section has
\* released the lock when it is done, whichever way it left (stored, hit
\* inside the lock, the wrapped function raised), and a finished invocation
\* owns no lock record.
C4_LockReleased ==
    \A i \in Inv :
        inv[i].pc = "done"
            => /\ lock # i
               /\ (inv[i].adds = 1 => inv[i].exits = 1)

C4_Witness ==
    /\ AllDone
    /\ lock = NoLock
    /\ \E i, j \in Inv :
        /\ inv[i].out = "raise_f" /\ inv[i].exits = 1
        /\ inv[j].out = "return" /\ inv[j].sets = 1 /\ inv[j].exits = 1

\* C5: a cached invocation whose get and set both raised has treated the
\* read as a miss, invoked the wrapped function exactly once and returns
\* its result: no backend exception is its outcome.
C5_BackendErrorsContained ==
    \A i \in Inv :
        /\ inv[i].getFailed
            => (inv[i].value = None /\ (inv[i].pc = "call" \/ inv[i].fcalls = 1))
        /\ (inv[i].getFailed /\ inv[i].setFailed)
            => /\ inv[i].value = None
               /\ inv[i].fcalls = 1
               /\ inv[i].out = "return"
               /\ inv[i].ret = inv[i].result
        /\ inv[i].out \in {"none", "return", "raise_f"}

C5_Witness ==
    \E i \in Inv :
        /\ inv[i].pc = "aexit"
        /\ inv[i].getFailed /\ inv[i].setFailed
        /\ inv[i].ret \in Values

\* C6: an invocation (cached or cached_stampede) whose wrapped function was
\* called and did not return has that error as its outcome, up to its
\* caller, and has issued no cache write.
C6_ErrorPropagates ==
    \A i \in Inv :
        /\ inv[i].raised
            => (inv[i].out = "raise_f" /\ inv[i].sets = 0)
        /\ inv[i].out = "raise_f"
            => (inv[i].raised /\ inv[i].fcalls = 1)

C6_Witness ==
    \E i, j \in Inv :
        /\ inv[i].pc = "done" /\ inv[i].raised /\ inv[i].out = "raise_f"
        /\ inv[j].pc \in {"aexit", "release"} /\ inv[j].raised

\* C7: a cached invocation calls the wrapped function at most once, and one
\* whose lookup returned a non-null value calls it zero times, issues no
\* cache write and returns the cached value.
C7_HitSkipsCall ==
    \A i \in Inv :
        /\ inv[i].fcalls <= 1
        /\ (inv[i].value # None)
            => /\ inv[i].pc = "aexit"
               /\ inv[i].fcalls = 0
               /\ inv[i].sets = 0
               /\ inv[i].out = "return"
               /\ inv[i].ret = inv[i].value
        /\ (inv[i].pc = "done" /\ inv[i].gets = 1 /\ inv[i].fcalls = 0)
            => (inv[i].sets = 0 /\ inv[i].out = "return"
                /\ inv[i].ret # None)

C7_Witness ==
    \E i, j \in Inv :
        /\ inv[i].pc = "aexit" /\ inv[i].value \in Values
        /\ inv[j].pc = "done" /\ inv[j].fcalls = 0 /\ inv[j].ret \in Values

\* The batch read of call i found some keys and missed others.
PartialHit(i) ==
    /\ \E n \in 1..Len(inv[i].values) : inv[i].values[n] # None
    /\ \E n \in 1..Len(inv[i].values) : inv[i].values[n] = None

\* The positions of the keys the batch read of call i missed.
MissedAt(i) == {n \in 1..Len(inv[i].values) : inv[i].values[n] = None}

\* C8: a multi_cached call by keyword whose batch read was a partial hit
\* invokes the wrapped function exactly once, with exactly the missing keys
\* as its keys argument, and returns the cached value for every key found
\* and the computed value for every key missed.  (Keys are the keys the
\* batch read was issued for.)
C8_OnlyMissingKeys ==
    \A i \in Calls :
        (inv[i].pc \in {"set", "aexit"} /\ ~inv[i].byPos /\ PartialHit(i))
            => /\ inv[i].fcalls = 1
               /\ Len(inv[i].farg) = Cardinality(MissedAt(i))
               /\ Range(inv[i].farg) = {inv[i].keys[n] : n \in MissedAt(i)}
               /\ inv[i].out = "return"
                    => /\ DOMAIN inv[i].ret = Range(inv[i].keys)
                       /\ \A n \in 1..Len(inv[i].keys) :
                            inv[i].ret[inv[i].keys[n]] =
                                IF n \in MissedAt(i)
                                THEN inv[i].fres[inv[i].keys[n]]
                                ELSE inv[i].values[n]

C8_Witness ==
    \E i \in Calls :
        /\ inv[i].pc = "aexit" /\ inv[i].out = "return"
        /\ ~inv[i].byPos /\ PartialHit(i)
        /\ Len(inv[i].keys) = 2
        /\ inv[i].ret[inv[i].keys[1]] # inv[i].ret[inv[i].keys[2]]

C10_WritesOnlyComputedAsStated ==
    \A i \in Calls :
        (inv[i].sets = 1 /\ PartialHit(i))
            => DOMAIN inv[i].wrote = {inv[i].keys[n] : n \in MissedAt(i)}

\* C10 amended: on a partial hit a multi_cached call issues one multi_set,
\* which holds the entries the wrapped function computed and the entries
\* that were cache hits: the merged mapping the call returns.
C10_WritesMerged ==
    \A i \in Calls :
        /\ inv[i].sets <= 1
        /\ (inv[i].sets = 1 /\ PartialHit(i))
            => /\ DOMAIN inv[i].wrote = Range(inv[i].keys)
               /\ \A n \in 1..Len(inv[i].keys) :
                    inv[i].wrote[inv[i].keys[n]] =
                        IF n \in MissedAt(i)
                        THEN inv[i].fres[inv[i].keys[n]]
                        ELSE inv[i].values[n]
               /\ inv[i].wrote = inv[i].ret

C10_Witness ==
    \E i \in Calls :
        /\ inv[i].pc = "aexit" /\ inv[i].sets = 1 /\ PartialHit(i)
        /\ ~inv[i].setFailed
        /\ \A k \in DOMAIN inv[i].wrote : store[k] = inv[i].wrote[k]

\* C11: the mapping a multi_cached call returns is keyed by the keys the
\* caller supplied (not by the keys the key_builder made of them), for the
\* keys found and the keys computed alike.
C11_OriginalKeys ==
    \A i \in Calls :
        inv[i].out = "return"
            => DOMAIN inv[i].ret \subseteq Range(inv[i].args)

\* The call i was made by keyword with an empty key list and has gone past
\* its lookup.
EmptyKeyList(i) ==
    /\ inv[i].pc \in {"call", "set", "aexit"}
    /\ inv[i].hasKeys /\ inv[i].args = <<>> /\ ~inv[i].byPos

C13_EmptyListIgnoresCache ==
    \A i \in Calls :
        EmptyKeyList(i)
            => /\ inv[i].gets = 0
               /\ inv[i].sets = 0
               /\ inv[i].out = "return" => inv[i].ret = inv[i].fres

MaxArgs == 2

\* The wrapped function def f(x, y="d", **kw): its positional parameter
\* names (co_varnames[:co_argcount]) and the defaults of its signature.
ArgNames == <<"x", "y">>

Defaults == "y" :> "d"

\* The values callers pass, the keyword names they use in lexicographic
\* order, and the calls' arguments: a tuple of positional values and the
\* keyword items in the order the caller wrote them.
ArgVals == {"1", "2"}

KwNames == <<"a", "b">>

ArgTuples == UNION {[1..n -> ArgVals] : n \in 0..MaxArgs}

KwItems ==
    {kw \in UNION {[1..n -> Range(KwNames) \X ArgVals] :
                        n \in 0..Len(KwNames)} :
        \A m, n \in 1..Len(kw) : kw[m][1] = kw[n][1] => m = n}

\* A keyword dict as a mapping, whatever its insertion order.
kwargs_dict(kw) ==
    [name \in {kw[n][1] : n \in 1..Len(kw)} |->
        kw[CHOOSE n \in 1..Len(kw) : kw[n][1] = name][2]]

\* _get_args_dict, lines 185-191: {**defaults, **dict(zip(args_names,
\* args)), **kwargs}.
_get_args_dict(args, kw) ==
    LET bound == 1..(IF Len(args) < Len(ArgNames)
                     THEN Len(args) ELSE Len(ArgNames))
        positional == [name \in {ArgNames[n] : n \in bound} |->
                        args[CHOOSE n \in bound : ArgNames[n] = name]]
    IN  kwargs_dict(kw) @@ positional @@ Defaults

\* Mutant of ordered_kwargs: the items are left in the caller's order.
ordered_kwargs_unsorted(kw) == kw

\* _key_from_args, line 100: sorted(kwargs.items()), the items by name.
ordered_kwargs(kw) ==
    LET d == kwargs_dict(kw)
        present == {n \in 1..Len(KwNames) : KwNames[n] \in DOMAIN d}
        F[n \in 0..Len(KwNames)] ==
            IF n = 0 THEN <<>>
            ELSE IF n \in present
                 THEN Append(F[n - 1], <<KwNames[n], d[KwNames[n]]>>)
                 ELSE F[n - 1]
    IN  F[Len(KwNames)]

\* str() of a tuple of values and of a list of items, as the pieces of the
\* text.
str_args(args) == <<"(">> \o args \o <<")">>

str_items(items) ==
    LET F[n \in 0..Len(items)] ==
            IF n = 0 THEN <<"[">>
            ELSE F[n - 1] \o <<"(", items[n][1], items[n][2], ")">>
    IN  F[Len(items)] \o <<"]">>

\* _key_from_args, lines 99-102: module + name + str(args, without the
\* first when noself) + str(ordered_kwargs).
_key_from_args(noself, args, kw) ==
    <<"mod", "f">>
        \o str_args(IF noself /\ args # <<>> THEN Tail(args) ELSE args)
        \o str_items(ordered_kwargs(kw))

\* Mutant of get_cache_key: key_from_attr is read before the key.
get_cache_key_attr_first(cfg, args, kw) ==
    LET args_dict == _get_args_dict(args, kw)
    IN  IF cfg.key_from_attr \in DOMAIN args_dict
        THEN [out |-> "return", key |-> <<args_dict[cfg.key_from_attr]>>]
        ELSE IF cfg.key # None /\ cfg.key # ""
        THEN [out |-> "return", key |-> <<cfg.key>>]
        ELSE [out |-> "return",
              key |-> _key_from_args(cfg.noself, args, kw)]

\* Mutant of get_cache_key: a missing attribute without fallback.
get_cache_key_no_default(cfg, args, kw) ==
    LET args_dict == _get_args_dict(args, kw)
    IN  IF cfg.key # None /\ cfg.key # ""
        THEN [out |-> "return", key |-> <<cfg.key>>]
        ELSE IF cfg.key_from_attr \in DOMAIN args_dict
        THEN [out |-> "return", key |-> <<args_dict[cfg.key_from_attr]>>]
        ELSE [out |-> "raise_key", key |-> <<>>]

\* get_cache_key, lines 90-97: the key when it is truthy (if self.key),
\* else args_dict.get(key_from_attr, _key_from_args(...)).  It returns on
\* every path.
get_cache_key(cfg, args, kw) ==
    LET args_dict == _get_args_dict(args, kw)
    IN  IF cfg.key # None /\ cfg.key # ""
        THEN [out |-> "return", key |-> <<cfg.key>>]
        ELSE IF cfg.key_from_attr \in DOMAIN args_dict
        THEN [out |-> "return", key |-> <<args_dict[cfg.key_from_attr]>>]
        ELSE [out |-> "return",
              key |-> _key_from_args(cfg.noself, args, kw)]

\* The derivations of a key that are compared with one another.
Derivations == {1, 2}

KeyFresh ==
    [pc |-> "start", args |-> <<>>, kw |-> <<>>, out |-> "none",
     key |-> <<>>]

\* cached.__init__, lines 40-54: key, key_from_attr and noself as the
\* decorator was given them; nothing has been derived.
InitKey ==
    /\ \E key \in {None, "", "key"}, attr \in {None, "x", "y", "a"},
          noself \in BOOLEAN :
        config = [deco |-> "get_cache_key", key |-> key,
                  key_from_attr |-> attr, noself |-> noself]
    /\ store = [k \in SingleKeys |-> None]
    /\ conn = NoConn
    /\ closes = FALSE
    /\ foreignOp = FALSE
    /\ faulted = FALSE
    /\ lock = NoLock
    /\ underrun = FALSE
    /\ staggered = FALSE
    /\ inv = [i \in Derivations |-> KeyFresh]

\* decorator, line 78: key = self.get_cache_key(f, args, kwargs), for the
\* arguments of one call.
cached_get_cache_key(i) ==
    /\ config.deco = "get_cache_key"
    /\ inv[i].pc = "start"
    /\ \E args \in ArgTuples, kw \in KwItems :
        LET r == get_cache_key(config, args, kw)
        IN  inv' = Upd(i, [pc |-> "keyed", args |-> args, kw |-> kw,
                           out |-> r.out, key |-> r.key])
    /\ UNCHANGED <<faulted, store, conn, closes, foreignOp,
                   lock, underrun, staggered, config>>

NextKey == \E i \in Derivations : cached_get_cache_key(i)

SpecKey == InitKey /\ [][NextKey]_vars

\* The derivation i was made with no explicit key and a key_from_attr that
\* the bindings of the call do not hold.
AttrMissing(i) ==
    /\ inv[i].pc = "keyed"
    /\ config.key = None
    /\ config.key_from_attr # None
    /\ config.key_from_attr \notin DOMAIN _get_args_dict(inv[i].args, inv[i].kw)

\* C15 as stated: with key_from_attr configured, no explicit key and
\* bindings that do not hold the attribute, get_cache_key fails with a
\* missing-key error and returns no key.
C15_MissingAttrRaisesAsStated ==
    \A i \in Derivations : AttrMissing(i) => inv[i].out = "raise_key"

\* C15 amended: in that case get_cache_key returns the key built from the
\* module, the function name and the arguments, and raises nothing.
C15_MissingAttrFallsBack ==
    \A i \in Derivations :
        AttrMissing(i)
            => /\ inv[i].out = "return"
               /\ inv[i].key =
                    _key_from_args(config.noself, inv[i].args, inv[i].kw)

C15_Witness ==
    \E i \in Derivations :
        /\ AttrMissing(i) /\ config.key_from_attr = "a"
        /\ Len(inv[i].args) = 2 /\ Len(inv[i].kw) = 1
        /\ inv[i].out = "return" /\ Len(inv[i].key) > 1

\* C16: with an explicit key configured (a key that line 91 takes for set),
\* get_cache_key returns that key whatever key_from_attr and the arguments
\* are.
C16_ExplicitKeyWins ==
    \A i \in Derivations :
        (inv[i].pc = "keyed" /\ config.key # None /\ config.key # "")
            => (inv[i].out = "return" /\ inv[i].key = <<config.key>>)

C16_Witness ==
    \E i \in Derivations :
        /\ inv[i].pc = "keyed" /\ config.key = "key"
        /\ config.key_from_attr = "a"
        /\ "a" \in DOMAIN _get_args_dict(inv[i].args, inv[i].kw)
        /\ inv[i].key = <<"key">>

\* C17: two derivations from equal positional arguments and from keyword
\* arguments that are equal as mappings, in whatever order they were
\* written, yield the same key.
C17_KeyDeterministic ==
    \A i, j \in Derivations :
        (inv[i].pc = "keyed" /\ inv[j].pc = "keyed"
            /\ inv[i].args = inv[j].args
            /\ kwargs_dict(inv[i].kw) = kwargs_dict(inv[j].kw))
            => /\ inv[i].key = inv[j].key
               /\ _key_from_args(config.noself, inv[i].args, inv[i].kw)
                    = _key_from_args(config.noself, inv[j].args, inv[j].kw)

C17_Witness ==
    \E i, j \in Derivations :
        /\ inv[i].pc = "keyed" /\ inv[j].pc = "keyed"
        /\ config.key = None /\ config.key_from_attr = None
        /\ inv[i].args = inv[j].args /\ inv[i].args # <<>>
        /\ Len(inv[i].kw) = 2 /\ inv[i].kw # inv[j].kw
        /\ kwargs_dict(inv[i].kw) = kwargs_dict(inv[j].kw)
        /\ inv[i].key = inv[j].key

\* ------------------------------------------- cached_stampede, counts
RECURSIVE SumAdds(_)
SumAdds(S) ==
    IF S = {} THEN 0
    ELSE LET i == CHOOSE x \in S : TRUE
         IN  inv[i].adds + SumAdds(S \ {i})

RECURSIVE SumExits(_)
SumExits(S) ==
    IF S = {} THEN 0
    ELSE LET i == CHOOSE x \in S : TRUE
         IN  inv[i].exits + SumExits(S \ {i})

RECURSIVE SumSets(_)
SumSets(S) ==
    IF S = {} THEN 0
    ELSE LET i == CHOOSE x \in S : TRUE
         IN  inv[i].sets + SumSets(S \ {i})

\* Every caller's first lookup missed and the second, inside the lock, was
\* made: two lookups each.
AllMissedTwice == \A i \in Inv : inv[i].gets = 2

\* C18: when the N callers of a cached_stampede function have all missed
\* the key and no lease ran out, the add was attempted exactly N times, once
\* by each caller, and the release was performed exactly N times, once by
\* each caller.
C18_AddsAndReleases ==
    /\ \A i \in Inv : inv[i].adds <= 1 /\ inv[i].exits <= inv[i].adds
    /\ (AllDone /\ AllMissedTwice /\ ~underrun)
        => /\ SumAdds(Inv) = NInv
           /\ SumExits(Inv) = NInv
           /\ \A i \in Inv : inv[i].adds = 1 /\ inv[i].exits = 1

C18_Witness ==
    /\ AllDone /\ AllMissedTwice /\ ~underrun /\ Concurrent
    /\ SumAdds(Inv) = NInv /\ SumExits(Inv) = NInv
    /\ TotalCalls = 1

\* C19 as stated: when the N callers have all missed the key and a lease
\* ran out inside a locked section, the number of computations and the
\* number of cache writes are both at least 1 and at most N.
C19_ComputationsAndWritesAsStated ==
    (AllDone /\ Concurrent /\ AllMissedFirst /\ underrun)
        => /\ TotalCalls \in 1..NInv
           /\ SumSets(Inv) \in 1..NInv

\* C19 amended: in that case the number of computations is at least 1 and
\* at most N; a cache write is issued for each computation that returned
\* and for no other, so the writes are at most the computations, and as
\* many when the wrapped function did not raise.
C19_ComputationsBounded ==
    /\ \A i \in Inv :
        inv[i].pc = "done"
            => inv[i].sets = (IF inv[i].fcalls = 1 /\ ~inv[i].raised
                              THEN 1 ELSE 0)
    /\ (AllDone /\ AllMissedFirst /\ underrun)
        => /\ TotalCalls \in 1..NInv
           /\ SumSets(Inv) <= TotalCalls
           /\ (\A i \in Inv : ~inv[i].raised) => SumSets(Inv) = TotalCalls

C19_Witness ==
    /\ AllDone /\ AllMissedFirst /\ underrun /\ Concurrent
    /\ ~faulted
    /\ TotalCalls = NInv /\ SumSets(Inv) = NInv
    /\ \A i \in Inv : inv[i].ret \in Values

\* C20: a cached_stampede invocation whose first lookup returned a non-null
\* value returns it without an add attempt, without invoking the wrapped
\* function and without a cache write; only a caller that read None goes on
\* to the lock.
C20_FirstHitNoContention ==
    \A i \in Inv :
        /\ inv[i].pc \in {"add", "wait"}
            => (inv[i].value = None /\ inv[i].gets = 1)
        /\ (inv[i].pc = "done" /\ inv[i].gets = 1)
            => /\ inv[i].adds = 0 /\ inv[i].exits = 0
               /\ inv[i].fcalls = 0 /\ inv[i].sets = 0
               /\ inv[i].out = "return" /\ inv[i].ret \in Values

C20_Witness ==
    \E i, j \in Inv :
        /\ inv[i].pc = "done" /\ inv[i].gets = 1 /\ inv[i].adds = 0
        /\ inv[i].out = "return"
        /\ inv[j].pc = "done" /\ inv[j].sets = 1
        /\ inv[i].ret = inv[j].ret

\* C21: a cached_stampede invocation whose first lookup missed enters the
\* lock once and looks the key up a second time inside it; when that lookup
\* finds a value it returns it without invoking the wrapped function and
\* without a write, otherwise it invokes the wrapped function and, when it
\* returned, stores the result before it goes on to the release.
C21_DoubleChecked ==
    \A i \in Inv :
        /\ inv[i].adds <= 1
        /\ inv[i].pc = "get2" => (inv[i].adds = 1 /\ inv[i].gets = 1)
        /\ inv[i].pc \in {"call", "set"}
            => (inv[i].adds = 1 /\ inv[i].gets = 2 /\ inv[i].value = None)
        /\ inv[i].pc = "release"
            => /\ inv[i].adds = 1 /\ inv[i].gets = 2 /\ inv[i].exits = 0
               /\ \/ /\ inv[i].value \in Values
                     /\ inv[i].fcalls = 0 /\ inv[i].sets = 0
                     /\ inv[i].out = "return" /\ inv[i].ret = inv[i].value
                  \/ /\ inv[i].value = None
                     /\ inv[i].fcalls = 1
                     /\ IF inv[i].raised
                        THEN inv[i].sets = 0 /\ inv[i].out = "raise_f"
                        ELSE /\ inv[i].sets = 1 /\ inv[i].out = "return"
                             /\ inv[i].ret = inv[i].result
        /\ (inv[i].pc = "done" /\ inv[i].adds = 1)
            => (inv[i].gets = 2 /\ inv[i].exits = 1)

C21_Witness ==
    \E i, j \in Inv :
        /\ inv[i].pc = "release" /\ inv[i].value \in Values
        /\ inv[i].fcalls = 0 /\ inv[i].gets = 2
        /\ inv[j].pc = "done" /\ inv[j].sets = 1 /\ inv[j].gets = 2

\* C22: the handle field of a cached_stampede decorator is unset before,
\* during and after every invocation, and none of its reads and writes goes
\* through a handle: no connection is held while a caller waits for the
\* lock.
C22_NoHandleHeld ==
    config.deco = "cached_stampede" => (conn = NoConn /\ ~foreignOp)

C22_Witness ==
    /\ config.deco = "cached_stampede" /\ conn = NoConn
    /\ \E i, j \in Inv :
        /\ inv[i].pc = "wait"
        /\ inv[j].pc = "release" /\ inv[j].sets = 1

\* ------------------------------------- cached and multi_cached: handles
\* The two decorators that acquire a handle per invocation.
InitPooled == InitCached \/ InitMulti

NextPooled == NextCached \/ NextMulti

SpecPooled == InitPooled /\ [][NextPooled]_vars

\* C23: every invocation of cached and of multi_cached leaves the with
\* block of the handle it acquired exactly once: not before it is done, and
\* once when it is done, whether it returned a hit, returned what it
\* computed, or raised from the wrapped function or from key derivation.
C23_HandleReturnedOnce ==
    \A i \in DOMAIN inv :
        /\ inv[i].exits <= 1
        /\ inv[i].pc # "done" => inv[i].exits = 0
        /\ inv[i].pc = "done"
            => /\ inv[i].exits = 1
               /\ inv[i].out \in {"return", "raise_f", "raise_key",
                                  "raise_type"}

C23_Witness ==
    /\ config.deco = "cached"
    /\ \E i, j \in Inv :
        /\ inv[i].pc = "done" /\ inv[i].out = "raise_f" /\ inv[i].exits = 1
        /\ inv[j].pc = "done" /\ inv[j].out = "return" /\ inv[j].exits = 1
        /\ inv[j].fcalls = 0

\* Invocation j starts now while no other is in progress and an earlier one
\* has left its handle in the decorator.
StartsAfterOthers(j) ==
    /\ inv[j].pc = "start" /\ inv'[j].pc = "aenter"
    /\ conn # NoConn
    /\ \A i \in DOMAIN inv \ {j} : inv[i].pc \in {"start", "done"}

\* C24 as stated: an invocation of cached or multi_cached that starts after
\* the earlier ones have returned keeps the handle the decorator holds, the
\* one most recently acquired, and acquires none.
C24_ReusesHandleAsStated ==
    [][\A j \in DOMAIN inv : StartsAfterOthers(j) => conn' = conn]_vars

\* C24 amended: every invocation of cached or multi_cached, sequential or
\* not, acquires a new handle of its own when it starts and stores it in
\* the decorator in place of the earlier one.
C24_AcquiresNewHandle ==
    [][\A j \in DOMAIN inv :
            (inv[j].pc = "start" /\ inv'[j].pc = "aenter")
                => (conn' = j /\ conn' # conn)]_vars

C24_Witness ==
    /\ config.deco = "cached" /\ staggered /\ ~foreignOp
    /\ \E j \in Inv :
        /\ inv[j].pc = "aenter" /\ conn = j
        /\ \A i \in Inv \ {j} : inv[i].pc = "done" /\ inv[i].sets = 1

\* ------------------------------------- cached_stampede: progress
\* The scheduling the lock relies on: the backend drops a lock record when
\* its ttl is over, and the event loop resumes a waiting caller whose wait
\* is over.  A holder is not obliged to go on: it may stall inside its
\* section for ever.
SpecStampedeFair ==
    /\ SpecStampede
    /\ WF_vars(redlock_lease_expires)
    /\ \A i \in Inv : WF_vars(stampede_redlock_wait(i))

\* C25: a caller waiting for the lock of the key eventually enters its
\* locked section, even when the holder never releases: the lock record is
\* gone when the lease is over.
C25_WaitersEnter ==
    \A i \in Inv : (inv[i].pc = "wait") ~> (inv[i].pc # "wait")

C25_Witness ==
    /\ underrun
    /\ \E i, j \in Inv :
        /\ inv[j].pc = "call" /\ inv[j].adds = 1 /\ inv[j].exits = 0
        /\ inv[i].pc = "get2" /\ inv[i].adds = 1 /\ lock # i

\* C26: a release deletes the lock record only when the releasing caller
\* still owns it; the record of another caller, added after the releasing
\* caller's lease ran out, is left in place.
C26_ReleaseOnlyOwn ==
    [][\A i \in Inv :
            (inv[i].pc = "release" /\ inv'[i].pc = "done")
                => lock' = (IF lock = i THEN NoLock ELSE lock)]_vars

C26_Witness ==
    /\ underrun /\ ~faulted
    /\ \E i, j \in Inv :
        /\ i # j
        /\ inv[i].pc = "done" /\ inv[i].exits = 1
        /\ inv[i].sets = 1 /\ inv[i].ret \in Values
        /\ inv[j].pc = "set" /\ inv[j].fcalls = 1
        /\ lock = j

\* Caller i is inside its locked section.
InSection(i) == inv[i].pc \in {"get2", "call", "set", "release"}

InitStampedeNoLease ==
    /\ store = [k \in SingleKeys |-> None]
    /\ conn = NoConn
    /\ closes = FALSE
    /\ foreignOp = FALSE
    /\ faulted = FALSE
    /\ lock = NoLock
    /\ underrun = FALSE
    /\ staggered = FALSE
    /\ config = [deco |-> "cached_stampede", lease |-> NoLease]
    /\ inv = [i \in Inv |-> Fresh]

NextStampedeNoLease ==
    \E i \in Inv :
        \/ stampede_get_from_cache(i)
        \/ stampede_redlock_aenter(i)
        \/ stampede_redlock_wait(i)
        \/ stampede_get_in_lock(i)
        \/ stampede_call_f(i)
        \/ stampede_set_in_cache(i)
        \/ stampede_redlock_aexit(i)

SpecStampedeNoLease == InitStampedeNoLease /\ [][NextStampedeNoLease]_vars

\* C28: with lease 0 or None no locking happens: no invocation attempts an
\* add, no lock record exists and no invocation waits on another's lock.
C28_NoLeaseNoLock ==
    config.lease = NoLease
        => /\ lock = NoLock
           /\ \A i \in Inv : inv[i].adds = 0 /\ inv[i].pc # "wait"

\* C29: a multi_cached invocation whose bindings have no keys attribute
\* fails with the KeyError of get_cache_keys; it has not invoked the wrapped
\* function and has issued no multi_get and no multi_set.
C29_MissingKeysAttrRaises ==
    \A i \in Calls :
        /\ ~inv[i].hasKeys
            => /\ inv[i].pc \in {"aenter", "get", "aexit"}
               /\ inv[i].pc = "aexit" => inv[i].out = "raise_key"
        /\ (~inv[i].hasKeys \/ inv[i].out = "raise_key")
            => (inv[i].gets = 0 /\ inv[i].fcalls = 0 /\ inv[i].sets = 0)

C29_Witness ==
    \E i \in Calls :
        /\ inv[i].pc = "done" /\ inv[i].out = "raise_key"
        /\ inv[i].exits = 1 /\ inv[i].gets = 0 /\ inv[i].fcalls = 0

\* C30: a value a cached call computed and stored without failure is the
\* entry of its key from then on, nothing but a later successful write
\* changes it, and a call that reads the key without failure while the
\* entry is a non-null v returns v at once, without invoking the wrapped
\* function and without writing.
C30_StoredValueServed ==
    [][/\ \A i \in Inv :
            /\ (inv[i].pc = "set" /\ inv'[i].pc = "aexit"
                    /\ ~inv'[i].setFailed)
                => store'[inv[i].key] = inv[i].result
            /\ (inv[i].pc = "get" /\ inv'[i].pc # "get"
                    /\ ~inv'[i].getFailed /\ store[inv[i].key] \in Values)
                => /\ inv'[i].pc = "aexit" /\ inv'[i].out = "return"
                   /\ inv'[i].ret = store[inv[i].key]
                   /\ inv'[i].fcalls = 0 /\ inv'[i].sets = 0
       /\ store' # store
            => \E i \in Inv :
                /\ inv[i].pc = "set" /\ inv'[i].pc = "aexit"
                /\ ~inv'[i].setFailed]_vars

C30_Witness ==
    /\ config.deco = "cached" /\ staggered
    /\ \E i, j \in Inv :
        /\ inv[i].pc = "done" /\ inv[i].fcalls = 1 /\ inv[i].sets = 1
        /\ inv[i].ret \in Values
        /\ inv[j].pc = "aexit" /\ inv[j].gets = 1 /\ ~inv[j].getFailed
        /\ inv[j].fcalls = 0 /\ inv[j].sets = 0
        /\ inv[j].out = "return" /\ inv[j].ret = inv[i].ret
        /\ store[inv[j].key] = inv[i].ret

\* C31: no invocation of cached or multi_cached issues a get or a set
\* through a handle whose with block has already been left (the handle an
\* operation goes through is the one the decorator holds at that moment).
C31_NoUseAfterRelease ==
    [][\A i \in DOMAIN inv :
            (inv'[i].gets > inv[i].gets \/ inv'[i].sets > inv[i].sets)
                => (conn = NoConn \/ inv[conn].exits = 0)]_vars

\* C32: a multi_cached call that passed its key list by position and has
\* missed a key invokes the wrapped function, with the missing keys as its
\* keys argument, and the call does not fail on the binding of the keys.
C32_PositionalKeysCall ==
    \A i \in Calls :
        inv[i].byPos
            => /\ inv[i].out # "raise_type"
               /\ inv[i].fcalls = 1
               /\ inv[i].farg = inv[i].missing

\* C33: a None is never served from the cache.  An invocation of cached or
\* cached_stampede that returns without having invoked the wrapped function
\* returns a non-null value; storing a None result leaves the key without a
\* value; and an invocation that looks the key up while it has no value
\* goes on to invoke the wrapped function (by way of the lock and a second
\* lookup for cached_stampede).
C33_NoneNeverServed ==
    [][\A i \in Inv :
            /\ (inv'[i].out = "return" /\ inv'[i].fcalls = 0)
                => inv'[i].ret \in Values
            /\ (inv[i].pc = "set" /\ inv'[i].pc # "set"
                    /\ inv[i].result = None)
                => store'[inv[i].key] \in {None, store[inv[i].key]}
            /\ (inv[i].pc \in {"get", "get2"} /\ inv'[i].pc # inv[i].pc
                    /\ store[inv[i].key] = None)
                => inv'[i].pc = "call"
            /\ (inv[i].pc = "call" /\ inv'[i].pc # "call")
                => inv'[i].fcalls = 1
            /\ (config.deco = "cached_stampede" /\ inv[i].pc = "start"
                    /\ inv'[i].pc # "start"
                    /\ \A k \in DOMAIN store : store[k] = None)
                => inv'[i].pc = "add"]_vars

C33_Witness ==
    /\ config.deco = "cached" /\ staggered
    /\ \E i, j \in Inv :
        /\ inv[i].pc = "done" /\ inv[i].fcalls = 1 /\ inv[i].sets = 1
        /\ inv[i].out = "return" /\ inv[i].ret = None
        /\ inv[j].pc = "set" /\ inv[j].gets = 1 /\ ~inv[j].getFailed
        /\ inv[j].fcalls = 1

=============================================================================
